---- MODULE Spec2Model ----
(***************************************************************************)
(* Model of stringifyJsonPreservingComments                                *)
(* (lib/workers/repository/config-migration/branch/                         *)
(*  stringify-json-preserving-comments.ts): a migrated configuration       *)
(* object is written back into its original JSONC text.  The text is       *)
(* parsed into a lossless syntax tree (jsonc-morph), updateObject          *)
(* reconciles the tree with the object, and the tree is rendered again.    *)
(* Without a usable original the object is printed by JSON.stringify.      *)
(*                                                                         *)
(* Texts are sequences of lexical tokens [k, s].  Plain values are         *)
(* records [t, v]; an object value is the sequence of its own enumerable   *)
(* entries in iteration order.  Syntax-tree nodes carry their lexeme       *)
(* (scalars) or their members together with the trivia attached to them.   *)
(***************************************************************************)
EXTENDS Naturals, Sequences, FiniteSets, TLC

\* ------------------------------------------------------------------ bounds
MaxProps == 3   \* properties of a root object (source and target)
MaxElems == 2   \* elements of an array (source and target)

\* ------------------------------------------------------------------ tokens
Tok(k, s) == [k |-> k, s |-> s]
P(s) == Tok("p", s)
NL == Tok("nl", "")
SP == Tok("sp", "")

\* a trivia slot holds a comment, or "" when it holds only white space
Triv(kind, c) == IF c = "" THEN <<>> ELSE <<Tok(kind, c)>>
Line(ml) == IF ml THEN <<NL>> ELSE <<>>
At(toks, i) == IF i >= 1 /\ i <= Len(toks) THEN toks[i] ELSE Tok("eof", "")

\* ------------------------------------------------------------ plain values
Num(s) == [t |-> "num", v |-> s]
Str(s) == [t |-> "str", v |-> s]
Null == [t |-> "null", v |-> "null"]
Arr(es) == [t |-> "arr", v |-> es]
Obj(es) == [t |-> "obj", v |-> es]
Entry(k, v) == [k |-> k, v |-> v]
IsScalarT(t) == t \in {"str", "num", "bool", "null"}

\* a number that is not finite
NaN == Num("NaN")

RECURSIVE NonFinite(_)
\* the value graph holds a number that is not finite
NonFinite(v) ==
  CASE v = NaN -> TRUE
    [] v.t = "arr" -> \E i \in 1..Len(v.v) : NonFinite(v.v[i])
    [] v.t = "obj" -> \E i \in 1..Len(v.v) : NonFinite(v.v[i].v)
    [] OTHER -> FALSE

\* a cyclic value: the object t with t.a = t, its only own key
Cyclic == [t |-> "cyc", v |-> "a"]

\* value !== null && typeof value === 'object' (the value is not an array)
IsObject(v) == v.t \in {"obj", "cyc"}

RECURSIVE Circular(_)
\* the value graph has a cycle
Circular(v) ==
  CASE v.t = "cyc" -> TRUE
    [] v.t = "arr" -> \E i \in 1..Len(v.v) : Circular(v.v[i])
    [] v.t = "obj" -> \E i \in 1..Len(v.v) : Circular(v.v[i].v)
    [] OTHER -> FALSE

\* Object.entries(newObj): the own enumerable entries, in iteration order
Entries(o) == IF o.t = "cyc" THEN <<Entry(o.v, o)>> ELSE o.v
OwnKeys(o) == {Entries(o)[i].k : i \in 1..Len(Entries(o))}

\* names every plain object inherits from Object.prototype
InheritedNames == {"toString"}

\* `key in newObj`: own and inherited members alike
HasIn(key, o) == key \in OwnKeys(o) \/ key \in InheritedNames

\* ------------------------------------------------------------ syntax tree
\* the decoded value of a scalar lexeme
Decode(raw) == CASE raw = "1.0" -> "1" [] OTHER -> raw

Scalar(t, raw) == [t |-> t, raw |-> raw]
Member(lead, node, comma, trail) ==
  [lead |-> lead, node |-> node, comma |-> comma, trail |-> trail]
Prop(id, lead, key, node, comma, trail) ==
  [id |-> id, lead |-> lead, key |-> key, node |-> node, comma |-> comma,
   trail |-> trail]
ArrayNode(ml, elems, tail) ==
  [t |-> "arr", ml |-> ml, elems |-> elems, tail |-> tail]
ObjectNode(ml, props, tail) ==
  [t |-> "obj", ml |-> ml, props |-> props, tail |-> tail]

RECURSIVE ValueOf(_)
\* the plain value a node stands for
ValueOf(n) ==
  CASE n.t = "arr" ->
         Arr([i \in 1..Len(n.elems) |-> ValueOf(n.elems[i].node)])
    [] n.t = "obj" ->
         Obj([i \in 1..Len(n.props) |->
                Entry(n.props[i].key, ValueOf(n.props[i].node))])
    [] OTHER -> [t |-> n.t, v |-> Decode(n.raw)]

RECURSIVE RootToString(_)
\* root.toString(): the tokens and trivia of the tree in document order
RootToString(n) ==
  LET ScalarTok == Tok(IF n.t \in {"bool", "null"} THEN "lit" ELSE n.t, n.raw)
      After(m) == (IF m.comma THEN <<P(",")>> ELSE <<>>)
                    \o Triv("trail", m.trail) \o Line(n.ml)
      ElemText(m) == Triv("lead", m.lead) \o RootToString(m.node) \o After(m)
      PropText(m) == Triv("lead", m.lead) \o <<Tok("str", m.key), P(":")>>
                       \o RootToString(m.node) \o After(m)
      RECURSIVE Cat(_, _)
      Cat(ms, i) ==
        IF i > Len(ms) THEN <<>>
        ELSE (IF n.t = "obj" THEN PropText(ms[i]) ELSE ElemText(ms[i]))
               \o Cat(ms, i + 1)
  IN CASE n.t = "arr" ->
            <<P("[")>> \o Line(n.ml) \o Cat(n.elems, 1)
              \o Triv("lead", n.tail) \o <<P("]")>>
       [] n.t = "obj" ->
            <<P("{")>> \o Line(n.ml) \o Cat(n.props, 1)
              \o Triv("lead", n.tail) \o <<P("}")>>
       [] OTHER -> <<ScalarTok>>

\* ------------------------------------------------------------------ parser
ParseError == [ok |-> FALSE]

RECURSIVE ParseValue(_, _)
RECURSIVE ParseMembers(_, _, _, _)

\* the members of a container from token i on, up to its closing delimiter
ParseMembers(toks, i, isObj, acc) ==
  LET hasLead == At(toks, i).k = "lead"
      lead == IF hasLead THEN At(toks, i).s ELSE ""
      j == IF hasLead THEN i + 1 ELSE i
      closer == IF isObj THEN P("}") ELSE P("]")
      keyOk == At(toks, j).k = "str" /\ At(toks, j + 1) = P(":")
      key == At(toks, j).s
      dup == \E x \in 1..Len(acc) : acc[x].key = key
      val == ParseValue(toks, IF isObj THEN j + 2 ELSE j)
      p1 == val.next
      comma == At(toks, p1) = P(",")
      p2 == IF comma THEN p1 + 1 ELSE p1
      hasTrail == At(toks, p2).k = "trail"
      trail == IF hasTrail THEN At(toks, p2).s ELSE ""
      p3 == IF hasTrail THEN p2 + 1 ELSE p2
      p4 == IF At(toks, p3).k = "nl" THEN p3 + 1 ELSE p3
      m == IF isObj
           THEN Prop(Len(acc) + 1, lead, key, val.node, comma, trail)
           ELSE Member(lead, val.node, comma, trail)
  IN IF At(toks, j) = closer
     THEN [ok |-> TRUE, members |-> acc, tail |-> lead, next |-> j + 1]
     ELSE IF Len(acc) > 0 /\ ~acc[Len(acc)].comma THEN ParseError
     ELSE IF isObj /\ (~keyOk \/ dup) THEN ParseError
     ELSE IF ~val.ok THEN ParseError
     ELSE ParseMembers(toks, p4, isObj, Append(acc, m))

\* one value starting at token i
ParseValue(toks, i) ==
  LET tk == At(toks, i)
      isObj == tk = P("{")
      ml == At(toks, i + 1).k = "nl"
      r == ParseMembers(toks, IF ml THEN i + 2 ELSE i + 1, isObj, <<>>)
  IN CASE tk.k \in {"str", "num"} ->
            [ok |-> TRUE, node |-> Scalar(tk.k, tk.s), next |-> i + 1]
       [] tk.k = "lit" ->
            [ok |-> TRUE,
             node |-> Scalar(IF tk.s = "null" THEN "null" ELSE "bool", tk.s),
             next |-> i + 1]
       [] tk = P("{") \/ tk = P("[") ->
            IF ~r.ok THEN ParseError
            ELSE [ok |-> TRUE,
                  node |-> IF isObj
                           THEN ObjectNode(ml, r.members, r.tail)
                           ELSE ArrayNode(ml, r.members, r.tail),
                  next |-> r.next]
       [] OTHER -> ParseError

\* parse(originalContent, {allowComments, allowTrailingCommas})
Parse(toks) ==
  LET r == ParseValue(toks, 1)
  IN IF r.ok /\ r.next = Len(toks) + 1
     THEN [ok |-> TRUE, node |-> r.node]
     ELSE ParseError

\* ---------------------------------------------------------- JSON.stringify
RECURSIVE JsonStringifyAt(_, _, _)
\* SerializeJSONProperty with the indentation `gap` at nesting `depth`
JsonStringifyAt(val, gap, depth) ==
  LET Ind(d) == [i \in 1..d |-> Tok("ind", gap)]
      Brk(d) == IF gap = "" THEN <<>> ELSE <<NL>> \o Ind(d)
      Colon == IF gap = "" THEN <<P(":")>> ELSE <<P(":"), SP>>
      n == Len(val.v)
      ItemText(i) ==
        IF val.t = "obj"
        THEN <<Tok("str", val.v[i].k)>> \o Colon
               \o JsonStringifyAt(val.v[i].v, gap, depth + 1)
        ELSE JsonStringifyAt(val.v[i], gap, depth + 1)
      RECURSIVE Items(_)
      Items(i) ==
        IF i > n THEN <<>>
        ELSE Brk(depth + 1) \o ItemText(i)
               \o (IF i < n THEN <<P(",")>> ELSE <<>>) \o Items(i + 1)
      Open == IF val.t = "obj" THEN P("{") ELSE P("[")
      Close == IF val.t = "obj" THEN P("}") ELSE P("]")
  IN IF val.t \in {"obj", "arr"}
     THEN IF n = 0 THEN <<Open, Close>>
          ELSE <<Open>> \o Items(1) \o Brk(depth) \o <<Close>>
     ELSE IF val = NaN THEN <<Tok("lit", "null")>>
     ELSE <<Tok(IF val.t \in {"bool", "null"} THEN "lit" ELSE val.t, val.v)>>

\* JSON.stringify(obj, undefined, indentSpaceFallback)
JsonStringify(val, gap) == JsonStringifyAt(val, gap, 0)

\* JSON.stringify throws a TypeError on a value graph with a cycle
JsonStringifyThrows(val) == Circular(val)

\* ------------------------------------------------ syntax-tree primitives
\* one invocation of a mutation primitive: its name, whether it acted on a
\* property or on an array element, the key of the property concerned, the
\* index of the inserted, replaced or removed member at that moment, and the
\* nesting depth of the object being updated (0 for the root object)
Log(op, on, key, at, depth) ==
  [op |-> op, on |-> on, key |-> key, at |-> at, depth |-> depth]

\* what a primitive leaves behind when it throws: it is handed a value that
\* has no rendering
Thrown == [t |-> "thrown"]

RECURSIVE Threw(_)
\* a primitive has thrown somewhere in the tree
Threw(n) ==
  CASE n.t = "thrown" -> TRUE
    [] n.t = "arr" -> \E i \in 1..Len(n.elems) : Threw(n.elems[i].node)
    [] n.t = "obj" -> \E i \in 1..Len(n.props) : Threw(n.props[i].node)
    [] OTHER -> FALSE

RECURSIVE FreshNode(_)
\* a value rendered as a new node: canonical lexemes, single line, no comments
FreshNode(v) ==
  CASE v.t = "cyc" -> Thrown
    [] v = NaN -> Thrown
    [] v.t = "arr" ->
         ArrayNode(FALSE,
                   [i \in 1..Len(v.v) |->
                      Member("", FreshNode(v.v[i]), i < Len(v.v), "")], "")
    [] v.t = "obj" ->
         ObjectNode(FALSE,
                    [i \in 1..Len(v.v) |->
                       Prop(i, "", v.v[i].k, FreshNode(v.v[i].v),
                            i < Len(v.v), "")], "")
    [] OTHER -> Scalar(v.t, v.v)

\* prop.setValue(value): a new value node, the property's trivia kept
SetValue(prop, value) == [prop EXCEPT !.node = FreshNode(value)]

\* element.replaceWith(value): a new node, the element's trivia kept
NodeReplaceWith(elem, value) == [elem EXCEPT !.node = FreshNode(value)]

\* prop.replaceWith(key, value): key and value replaced in place
PropReplaceWith(prop, key, value) ==
  [prop EXCEPT !.key = key, !.node = FreshNode(value)]

\* node.remove(): the member goes with its trivia and one adjoining comma,
\* the following one if there is one, else the preceding one
RemoveAt(ms, i) ==
  LET rest == SubSeq(ms, 1, i - 1) \o SubSeq(ms, i + 1, Len(ms))
  IN IF ms[i].comma \/ i = 1 THEN rest
     ELSE [rest EXCEPT ![i - 1].comma = FALSE]

\* 1 + the largest property id of an object
NextId(props) ==
  LET ids == {props[i].id : i \in 1..Len(props)} \cup {0}
  IN 1 + CHOOSE m \in ids : \A x \in ids : x <= m

\* targetObj.insert(index, key, value), index counted from 0
InsertProp(props, index, key, value) ==
  LET before == SubSeq(props, 1, index)
      after == SubSeq(props, index + 1, Len(props))
      new == Prop(NextId(props), "", key, FreshNode(value), Len(after) > 0, "")
  IN (IF index = 0 THEN before
      ELSE [before EXCEPT ![index].comma = TRUE]) \o <<new>> \o after

\* existingArray.append(value)
AppendElem(elems, value) ==
  LET n == Len(elems)
  IN (IF n = 0 THEN elems ELSE [elems EXCEPT ![n].comma = TRUE])
       \o <<Member("", FreshNode(value), FALSE, "")>>

\* array.ensureMultiline()
EnsureMultiline(node) ==
  IF node.t = "arr" THEN [node EXCEPT !.ml = TRUE] ELSE node

\* prop.propertyIndex(), counted from 0
PropertyIndex(props, id) == (CHOOSE i \in 1..Len(props) : props[i].id = id) - 1

\* --------------------------------------------------------------- reconciler
\* mutant of ReplaceNode: no branch handles the node, it is left as it is
ReplaceNode_Unhandled(elems, i, newValue) == elems

\* replaceNode(existingElements[i], value[i]) for the element at index i
ReplaceNode(elems, i, newValue) ==
  LET t == elems[i].node.t
      replaced == [elems EXCEPT ![i] = NodeReplaceWith(elems[i], newValue)]
  IN CASE t = "str" -> replaced
       [] t = "num" -> replaced
       [] t = "bool" -> replaced
       [] t = "null" -> replaced
       [] t \in {"arr", "obj"} -> replaced
       [] OTHER -> elems

\* removeNode(existingElements[i]) for the element at index i
RemoveNode(elems, i) ==
  LET t == elems[i].node.t
  IN CASE t = "str" -> RemoveAt(elems, i)
       [] t = "num" -> RemoveAt(elems, i)
       [] t = "bool" -> RemoveAt(elems, i)
       [] t = "null" -> RemoveAt(elems, i)
       [] t \in {"arr", "obj"} -> RemoveAt(elems, i)
       [] OTHER -> elems

\* updateArrayValue, lines 154-168: the current value is an array
ReconcileElements(prop, value, log, depth) ==
  LET n == Len(prop.node.elems)
      m == Len(value.v)
      RECURSIVE Excess(_, _)
      \* for (i = existingElements.length - 1; i >= value.length; i--)
      Excess(r, i) ==
        IF i < m THEN r
        ELSE Excess([elems |-> RemoveNode(r.elems, i + 1),
                     log |-> Append(r.log,
                                    Log("remove", "elem", prop.key, i, depth))],
                    i - 1)
      RECURSIVE Each(_, _)
      \* for (i = 0; i < value.length; i++)
      Each(r, i) ==
        IF i >= m THEN r
        ELSE IF i < n
        THEN Each([elems |-> ReplaceNode(r.elems, i + 1, value.v[i + 1]),
                   log |-> Append(r.log, Log("replaceWith", "elem", prop.key,
                                             i, depth))],
                  i + 1)
        ELSE Each([elems |-> AppendElem(r.elems, value.v[i + 1]),
                   log |-> Append(r.log,
                                  Log("append", "elem", prop.key, i, depth))],
                  i + 1)
      done == Each(Excess([elems |-> prop.node.elems, log |-> log], n - 1), 0)
  IN [prop |-> [prop EXCEPT !.node.elems = done.elems], log |-> done.log]

\* mutant of PromoteToArray: the new array is never formatted
PromoteToArray_Unformatted(prop, value, log, depth) ==
  [prop |-> SetValue(prop, value),
   log |-> Append(log, Log("setValue", "prop", prop.key, 0, depth))]

\* updateArrayValue, lines 170-177: the current value is not an array
PromoteToArray(prop, value, log, depth) ==
  LET set == SetValue(prop, value)
  IN IF Len(value.v) > 0
     THEN [prop |-> [set EXCEPT !.node = EnsureMultiline(set.node)],
           log |-> log \o <<Log("setValue", "prop", prop.key, 0, depth),
                            Log("ensureMultiline", "prop", prop.key, 0, depth)>>]
     ELSE [prop |-> set,
           log |-> Append(log, Log("setValue", "prop", prop.key, 0, depth))]

\* mutant of UpdateArrayValue: an existing array is overwritten like any
\* other value
UpdateArrayValue_AlwaysPromote(prop, value, log, depth) ==
  PromoteToArray(prop, value, log, depth)

\* updateArrayValue(prop, value)
UpdateArrayValue(prop, value, log, depth) ==
  IF prop.node.t = "arr"
  THEN ReconcileElements(prop, value, log, depth)
  ELSE PromoteToArray(prop, value, log, depth)

RECURSIVE UpdateObject(_, _, _, _)
RECURSIVE UpdatePropertyValue(_, _, _, _)
RECURSIVE UpdateObjectValue(_, _, _, _)
RECURSIVE ProcessEntry(_, _, _)

\* updateObject, lines 21-27: the existing keys the new object does not have
PropsToRemove(existing, newObj) ==
  {k \in {existing[i].key : i \in 1..Len(existing)} : ~HasIn(k, newObj)}

\* updateObject, lines 13-29: the map of existing properties, the keys to
\* remove and the cursor before the first entry is processed
BeginUpdate(node, newObj, log, depth) ==
  LET existing == [i \in 1..Len(node.props) |->
                     [key |-> node.props[i].key, id |-> node.props[i].id]]
  IN [node |-> node,
      existingProps |-> existing,
      processedKeys |-> {},
      propsToRemove |-> PropsToRemove(existing, newObj),
      insertIndex |-> 0,
      log |-> log,
      depth |-> depth]

\* mutant of ExistingGet: the map is keyed by something no target key equals
ExistingGet_Miss(existing, key) == 0

\* existingProps.get(key): the handle of the property parsed with this key,
\* 0 for undefined
ExistingGet(existing, key) ==
  LET hit == {e \in 1..Len(existing) : existing[e].key = key}
  IN IF hit = {} THEN 0 ELSE existing[CHOOSE e \in hit : TRUE].id

\* lines 42-53: the first existing property that is to be removed, is not
\* processed and sits at the cursor (0 for null)
RenamedFrom(st, processed) ==
  LET ex == st.existingProps
      cands == {e \in 1..Len(ex) :
                  /\ ex[e].key \in st.propsToRemove
                  /\ ex[e].key \notin processed
                  /\ PropertyIndex(st.node.props, ex[e].id) = st.insertIndex}
  IN IF cands = {} THEN 0 ELSE CHOOSE e \in cands : \A x \in cands : e <= x

\* mutant of CursorAfter: the cursor stays on the property just dealt with
CursorAfter_Stale(index) == index

\* lines 39 and 60: the cursor moves behind the property just dealt with
CursorAfter(index) == index + 1

\* lines 63 and 74: Array.isArray(value) && value.length > 0
IsNonEmptyArray(value) == value.t = "arr" /\ Len(value.v) > 0

\* updateObject, lines 33-78: one iteration over Object.entries(newObj)
ProcessEntry(st, key, value) ==
  LET processed == st.processedKeys \cup {key}
      id == ExistingGet(st.existingProps, key)
      idx == PropertyIndex(st.node.props, id)
      upd == UpdatePropertyValue(st.node.props[idx + 1], value, st.log,
                                 st.depth)
      from == RenamedFrom(st, processed)
      old == st.existingProps[from]
      ridx == PropertyIndex(st.node.props, old.id)
      multi == IsNonEmptyArray(value)
      renamed == PropReplaceWith(st.node.props[ridx + 1], key, value)
      inserted == InsertProp(st.node.props, st.insertIndex, key, value)
      Fmt(p) == IF multi THEN [p EXCEPT !.node = EnsureMultiline(p.node)] ELSE p
      FmtLog(at) ==
        IF multi
        THEN <<Log("ensureMultiline", "prop", key, at, st.depth)>> ELSE <<>>
  IN IF id # 0
     THEN [st EXCEPT !.node.props[idx + 1] = upd.prop,
                     !.processedKeys = processed,
                     !.insertIndex = CursorAfter(idx),
                     !.log = upd.log]
     ELSE IF from # 0
     THEN [st EXCEPT !.node.props[ridx + 1] = Fmt(renamed),
                     !.processedKeys = processed \cup {old.key},
                     !.propsToRemove = st.propsToRemove \ {old.key},
                     !.insertIndex = CursorAfter(ridx),
                     !.log = Append(st.log, Log("replaceWith", "prop", key,
                                                ridx, st.depth))
                               \o FmtLog(ridx)]
     ELSE [st EXCEPT !.node.props =
                       [inserted EXCEPT ![st.insertIndex + 1] =
                                          Fmt(inserted[st.insertIndex + 1])],
                     !.processedKeys = processed,
                     !.insertIndex = st.insertIndex + 1,
                     !.log = Append(st.log, Log("insert", "prop", key,
                                                st.insertIndex, st.depth))
                               \o FmtLog(st.insertIndex)]

\* updateObject, lines 82-86: one iteration of the removal loop, for the
\* e-th existing property
RemoveStep(st, e) ==
  LET old == st.existingProps[e]
      idx == PropertyIndex(st.node.props, old.id)
  IN IF old.key \in st.propsToRemove
     THEN [st EXCEPT !.node.props = RemoveAt(st.node.props, idx + 1),
                     !.log = Append(st.log, Log("remove", "prop", old.key,
                                                idx, st.depth))]
     ELSE st

\* updateObject(targetObj, newObj)
UpdateObject(node, newObj, log, depth) ==
  LET RECURSIVE Loop(_, _)
      Loop(st, i) ==
        IF i > Len(Entries(newObj)) THEN st
        ELSE Loop(ProcessEntry(st, Entries(newObj)[i].k, Entries(newObj)[i].v),
                  i + 1)
      RECURSIVE Removals(_, _)
      Removals(st, e) ==
        IF e > Len(st.existingProps) THEN st
        ELSE Removals(RemoveStep(st, e), e + 1)
      end == Removals(Loop(BeginUpdate(node, newObj, log, depth), 1), 1)
  IN [node |-> end.node, log |-> end.log]

\* updateObjectValue(prop, value)
UpdateObjectValue(prop, value, log, depth) ==
  LET r == UpdateObject(prop.node, value, log, depth + 1)
  IN IF prop.node.t = "obj"
     THEN [prop |-> [prop EXCEPT !.node = r.node], log |-> r.log]
     ELSE [prop |-> SetValue(prop, value),
           log |-> Append(log, Log("setValue", "prop", prop.key, 0, depth))]

\* updatePropertyValue(prop, value)
UpdatePropertyValue(prop, value, log, depth) ==
  IF value.t = "arr" THEN UpdateArrayValue(prop, value, log, depth)
  ELSE IF IsObject(value) THEN UpdateObjectValue(prop, value, log, depth)
  ELSE [prop |-> SetValue(prop, value),
        log |-> Append(log, Log("setValue", "prop", prop.key, 0, depth))]

\* ------------------------------------------------------------------ inputs
KeyOrder == <<"a", "b", "c", "toString">>
Keys == {KeyOrder[i] : i \in 1..Len(KeyOrder)}
InnerKeyOrder == <<"a", "b">>
InnerKeys == {InnerKeyOrder[i] : i \in 1..Len(InnerKeyOrder)}
Indents == {"", "  ", "    "}
DefaultIndent == "  "

DistinctSeqs(S, n) ==
  {s \in [1..n -> S] : \A i, j \in 1..n : i # j => s[i] # s[j]}

\* an object node whose properties all hold the number 1, each with a comment
\* of its own before it and after it, and a comment before the closing brace
CommentedObject(keys, tag, trailingComma) ==
  ObjectNode(TRUE,
             [i \in 1..Len(keys) |->
                Prop(i, "/*" \o tag \o keys[i] \o "*/", keys[i],
                     Scalar("num", "1"),
                     i < Len(keys) \/ trailingComma, "//" \o tag \o keys[i])],
             "/*" \o tag \o "end*/")

SortedKeySeqs(order, max) ==
  {SelectSeq(order, LAMBDA k : k \in S) :
     S \in {T \in SUBSET {order[i] : i \in 1..Len(order)} :
              Cardinality(T) <= max}}

\* root objects of scalars, in every selection of keys
FlatSources ==
  {CommentedObject(ks, "", tc) :
     ks \in SortedKeySeqs(KeyOrder, MaxProps), tc \in BOOLEAN}

ObjectsOver(keys, vals, max) ==
  UNION {{Obj([i \in 1..n |-> Entry(ks[i], vs[i])]) :
            ks \in DistinctSeqs(keys, n), vs \in [1..n -> vals]} :
         n \in 0..max}

\* target objects of scalars, in every order of every selection of keys
FlatTargets == ObjectsOver(Keys, {Num("1"), Num("2")}, MaxProps)

ElemComment == <<"//e1", "//e2", "//e3", "//e4", "//e5", "//e6">>
InnerObject == CommentedObject(<<"a">>, "in-", FALSE)
ElemNodes == {Scalar("str", "x"), Scalar("num", "1"), InnerObject}

SourceArrays ==
  UNION {{ArrayNode(ml,
                    [i \in 1..n |->
                       Member("", es[i], i < n, ElemComment[i])], "") :
            es \in [1..n -> ElemNodes], ml \in BOOLEAN} :
         n \in 0..MaxElems}

SourceObjects ==
  {CommentedObject(ks, "n-", FALSE) :
     ks \in SortedKeySeqs(InnerKeyOrder, MaxProps)}

SourceNodes ==
  {Scalar("num", "1"), Scalar("num", "1.0"), Scalar("str", "x")}
    \cup SourceArrays \cup SourceObjects

ElemValues == {Str("x"), Num("1"), Obj(<<Entry("a", Num("1"))>>),
               Obj(<<Entry("a", Num("2"))>>)}

TargetArrays ==
  UNION {{Arr(es) : es \in [1..n -> ElemValues]} : n \in 0..MaxElems}

TargetValues ==
  {Num("1"), Num("2"), Str("x"), Null, Cyclic, Arr(<<Cyclic>>), NaN}
    \cup TargetArrays
    \cup ObjectsOver(InnerKeys, {Num("1"), Num("2")}, MaxProps)

\* a root object with one property holding any kind of value
NestedSources ==
  {ObjectNode(TRUE, <<Prop(1, "/*a*/", "a", n, FALSE, "//a")>>, "/*end*/") :
     n \in SourceNodes}

NestedTargets ==
  {Obj(<<Entry(k, v)>>) : k \in {"a", "b"}, v \in TargetValues}

\* texts the parser rejects, and texts whose root is not an object
BadTexts ==
  {<<Tok("word", "invalid"), Tok("word", "json"), P("{")>>,
   <<P("{"), Tok("str", "a"), P(":"), Tok("num", "1")>>,
   <<P("{"), Tok("str", "a"), P(":"), Tok("num", "1"),
     Tok("str", "b"), P(":"), Tok("num", "1"), P("}")>>,
   <<P("{"), Tok("str", "a"), P(":"), Tok("num", "1"), P(","),
     Tok("str", "a"), P(":"), Tok("num", "2"), P("}")>>,
   <<P("["), Tok("num", "1"), P("]")>>,
   <<Tok("num", "1")>>}

NoContent == [null |-> TRUE, text |-> <<>>]
Content(text) == [null |-> FALSE, text |-> text]

Input(o, c, ind) == [obj |-> o, originalContent |-> c, indent |-> ind]

Inputs ==
  {Input(o, Content(RootToString(n)), DefaultIndent) :
     o \in FlatTargets, n \in FlatSources}
    \cup {Input(o, Content(RootToString(n)), DefaultIndent) :
            o \in NestedTargets, n \in NestedSources}
    \cup {Input(o, c, ind) :
            o \in NestedTargets \cup {Obj(<<>>)},
            c \in {NoContent} \cup {Content(t) : t \in BadTexts},
            ind \in Indents}

\* ------------------------------------------------------------------- state
VARIABLES
  pc,                   \* "start", "update" (inside updateObject), "done"
                        \* (returned) or "threw" (an error reached the caller)
  obj,                  \* the object to serialize
  originalContent,      \* the original text, or NoContent for null
  indentSpaceFallback,  \* the indentation of the JSON.stringify fallback
  rootObj,              \* the root object of the syntax tree
  existingProps,        \* updateObject: key and handle of each property
  processedKeys,        \* updateObject: keys already dealt with
  propsToRemove,        \* updateObject: keys still to be removed
  insertIndex,          \* updateObject: the cursor
  entry,                \* entries of obj processed so far
  visited,              \* existing properties the removal loop has visited
  log,                  \* mutation primitives invoked so far
  warnings,             \* calls of logger.warn
  result                \* the returned text

vars == <<pc, obj, originalContent, indentSpaceFallback, rootObj,
          existingProps, processedKeys, propsToRemove, insertIndex, entry,
          visited, log, warnings, result>>

inputVars == <<obj, originalContent, indentSpaceFallback>>
updateVars == <<rootObj, existingProps, processedKeys, propsToRemove,
                insertIndex, log>>

EmptyObject == ObjectNode(FALSE, <<>>, "")
WarnMessage ==
  "Failed to preserve comments during JSON serialization, falling back to standard JSON"

Init ==
  /\ \E in \in Inputs :
       /\ obj = in.obj
       /\ originalContent = in.originalContent
       /\ indentSpaceFallback = in.indent
  /\ pc = "start"
  /\ rootObj = EmptyObject
  /\ existingProps = <<>>
  /\ processedKeys = {}
  /\ propsToRemove = {}
  /\ insertIndex = 0
  /\ entry = 0
  /\ visited = 0
  /\ log = <<>>
  /\ warnings = <<>>
  /\ result = <<>>

\* the state of updateObject on the root object, as one record
State ==
  [node |-> rootObj, existingProps |-> existingProps,
   processedKeys |-> processedKeys, propsToRemove |-> propsToRemove,
   insertIndex |-> insertIndex, log |-> log, depth |-> 0]

SetState(st) ==
  /\ rootObj' = st.node
  /\ existingProps' = st.existingProps
  /\ processedKeys' = st.processedKeys
  /\ propsToRemove' = st.propsToRemove
  /\ insertIndex' = st.insertIndex
  /\ log' = st.log

Parsed == Parse(originalContent.text)
ParseThrows == IF Parsed.ok THEN Parsed.node.t # "obj" ELSE TRUE

\* return JSON.stringify(obj, undefined, gap): the text is returned, or the
\* TypeError of JSON.stringify reaches the caller
ReturnPlain(gap) ==
  IF JsonStringifyThrows(obj)
  THEN pc' = "threw" /\ UNCHANGED result
  ELSE pc' = "done" /\ result' = JsonStringify(obj, gap)

\* lines 229-235, the catch block: one warning with the error, then the
\* plain rendering
Catch(error) ==
  /\ warnings' = Append(warnings, [error |-> error, message |-> WarnMessage])
  /\ ReturnPlain(indentSpaceFallback)

\* mutant of NoOriginal: the fallback indent is ignored
NoOriginal_DefaultIndent ==
  /\ pc = "start"
  /\ originalContent.null
  /\ ReturnPlain(DefaultIndent)
  /\ UNCHANGED <<inputVars, updateVars, entry, visited, warnings>>

\* lines 213-216: no original content, the plain rendering
NoOriginal ==
  /\ pc = "start"
  /\ originalContent.null
  /\ ReturnPlain(indentSpaceFallback)
  /\ UNCHANGED <<inputVars, updateVars, entry, visited, warnings>>

\* mutant of ParseFailure: the catch block falls back without a warning
ParseFailure_Silent ==
  /\ pc = "start"
  /\ ~originalContent.null
  /\ ParseThrows
  /\ ReturnPlain(indentSpaceFallback)
  /\ UNCHANGED <<inputVars, updateVars, entry, visited, warnings>>

\* lines 219-223 and 229-235: parse or asObjectOrThrow throws, the catch
\* block warns and returns the plain rendering
ParseFailure ==
  /\ pc = "start"
  /\ ~originalContent.null
  /\ ParseThrows
  /\ Catch(IF Parsed.ok THEN "NotAnObject" ELSE "ParseError")
  /\ UNCHANGED <<inputVars, updateVars, entry, visited>>

\* lines 219-226 and 13-29: the text parses to an object, updateObject starts
ParseOk ==
  /\ pc = "start"
  /\ ~originalContent.null
  /\ ~ParseThrows
  /\ SetState(BeginUpdate(Parsed.node, obj, <<>>, 0))
  /\ pc' = "update"
  /\ UNCHANGED <<inputVars, entry, visited, warnings, result>>

NextKey == Entries(obj)[entry + 1].k
NextValue == Entries(obj)[entry + 1].v
InLoop == pc = "update" /\ entry < Len(Entries(obj))

\* one iteration of the loop of updateObject on the root object; an error
\* thrown by a primitive leaves the try block of line 218 for the catch block
Step ==
  LET st == ProcessEntry(State, NextKey, NextValue)
  IN IF Threw(st.node)
     THEN /\ Catch("TypeError")
          /\ UNCHANGED <<inputVars, updateVars, entry, visited>>
     ELSE /\ SetState(st)
          /\ entry' = entry + 1
          /\ UNCHANGED <<pc, inputVars, visited, warnings, result>>

\* lines 36-39: the key exists, its value is updated in place
UpdateExisting ==
  /\ InLoop
  /\ ExistingGet(existingProps, NextKey) # 0
  /\ Step

\* lines 55-67: the key is new and a property to be removed sits at the cursor
Rename ==
  /\ InLoop
  /\ ExistingGet(existingProps, NextKey) = 0
  /\ RenamedFrom(State, processedKeys \cup {NextKey}) # 0
  /\ Step

\* lines 68-77: the key is new and is inserted at the cursor
InsertNew ==
  /\ InLoop
  /\ ExistingGet(existingProps, NextKey) = 0
  /\ RenamedFrom(State, processedKeys \cup {NextKey}) = 0
  /\ Step

InRemovals ==
  /\ pc = "update"
  /\ entry = Len(Entries(obj))
  /\ visited < Len(existingProps)

\* lines 82-86: the removal loop visits the next existing property
RemoveOrKeep ==
  /\ InRemovals
  /\ SetState(RemoveStep(State, visited + 1))
  /\ visited' = visited + 1
  /\ UNCHANGED <<pc, inputVars, entry, warnings, result>>

\* line 228: return root.toString()
Return ==
  /\ pc = "update"
  /\ entry = Len(Entries(obj))
  /\ visited = Len(existingProps)
  /\ result' = RootToString(rootObj)
  /\ pc' = "done"
  /\ UNCHANGED <<inputVars, updateVars, entry, visited, warnings>>

Next ==
  \/ NoOriginal
  \/ ParseFailure
  \/ ParseOk
  \/ UpdateExisting
  \/ Rename
  \/ InsertNew
  \/ RemoveOrKeep
  \/ Return

Spec == Init /\ [][Next]_vars

\* -------------------------------------------------------- model invariants
TypeOK ==
  /\ pc \in {"start", "update", "done", "threw"}
  /\ visited = 0 => insertIndex \in 0..Len(rootObj.props)
  /\ entry \in 0..Len(Entries(obj))
  /\ visited \in 0..Len(existingProps)

\* the parser is lossless: rendering the parsed tree gives the text back
Lossless ==
  (~originalContent.null /\ Parsed.ok)
    => RootToString(Parsed.node) = originalContent.text

\* stepping the root object agrees with the recursive updateObject
StepsAgree ==
  (pc = "done" /\ ~originalContent.null /\ ~ParseThrows /\ warnings = <<>>)
    => /\ rootObj = UpdateObject(Parsed.node, obj, <<>>, 0).node
       /\ log = UpdateObject(Parsed.node, obj, <<>>, 0).log

\* ------------------------------------------------------ notions for claims
\* the call has returned
Returned == pc = "done"
\* the call took the comment-preserving path to its end and has returned
Reconciled ==
  pc = "done" /\ ~originalContent.null /\ ~ParseThrows /\ warnings = <<>>
\* the call fell back because the original did not parse to an object
FellBack == pc = "done" /\ ~originalContent.null /\ ParseThrows
\* the syntax tree of the original, before any update
Source == Parsed.node
SourceKeys == [i \in 1..Len(Source.props) |-> Source.props[i].key]
TargetKeys == [i \in 1..Len(Entries(obj)) |-> Entries(obj)[i].k]
Range(f) == {f[i] : i \in DOMAIN f}
IndexOf(seq, x) == CHOOSE i \in 1..Len(seq) : seq[i] = x
PropOf(node, key) == node.props[CHOOSE i \in 1..Len(node.props) :
                                  node.props[i].key = key]
HasKey(node, key) == \E i \in 1..Len(node.props) : node.props[i].key = key
Comments(text) == {text[i] : i \in {j \in 1..Len(text) :
                                      text[j].k \in {"lead", "trail"}}}
RootOps(ops) == {i \in 1..Len(log) : log[i].depth = 0 /\ log[i].on = "prop"
                                     /\ log[i].op \in ops}

RECURSIVE SameValue(_, _)
\* two plain values are equal, the order of object keys apart
SameValue(v, w) ==
  /\ v.t = w.t
  /\ CASE v.t = "arr" ->
            /\ Len(v.v) = Len(w.v)
            /\ \A i \in 1..Len(v.v) : SameValue(v.v[i], w.v[i])
       [] v.t = "obj" ->
            /\ Len(v.v) = Len(w.v)
            /\ \A i \in 1..Len(v.v) : \E j \in 1..Len(w.v) :
                 v.v[i].k = w.v[j].k /\ SameValue(v.v[i].v, w.v[j].v)
       [] OTHER -> v.v = w.v

RECURSIVE ScalarsChanged(_, _)
\* how many scalars differ between two values of the same shape
\* (99 when the shapes differ)
ScalarsChanged(v, w) ==
  LET RECURSIVE Sum(_)
      Sum(i) ==
        IF i > Len(v.v) THEN 0
        ELSE (IF v.t = "arr" THEN ScalarsChanged(v.v[i], w.v[i])
              ELSE IF v.v[i].k = w.v[i].k
              THEN ScalarsChanged(v.v[i].v, w.v[i].v) ELSE 99) + Sum(i + 1)
  IN IF IsScalarT(v.t) /\ IsScalarT(w.t) THEN (IF v = w THEN 0 ELSE 1)
     ELSE IF v.t = w.t /\ ~IsScalarT(v.t) /\ Len(v.v) = Len(w.v) THEN Sum(1)
     ELSE 99

\* ------------------------------------------------------------------ claims

\* C1: round-trip identity.  When the object to serialize is exactly the
\* value the original text parses to, the returned text is the original
\* text.
C1_RoundTripIdentity ==
  (Reconciled /\ obj = ValueOf(Source)) => result = originalContent.text

\* C2: reconcile postcondition.  After updateObject the value of the syntax
\* tree equals the target at every level: the same keys, no more and no
\* fewer, equal values, arrays element by element in order.
C2_ReconcilePostcondition ==
  Reconciled => SameValue(ValueOf(rootObj), obj)

\* C3: parse-failure fallback.  An original that does not parse, or whose
\* root is not an object, gives exactly one warning carrying the error, the
\* plain JSON.stringify rendering with the fallback indent, and a normal
\* return: the parse error does not reach the caller.  (For the targets that
\* have a plain rendering: the others are those of C11.)
C3_ParseFailureFallback ==
  (pc # "start" /\ ~originalContent.null /\ ParseThrows /\ ~Circular(obj))
    => /\ pc = "done"
       /\ Len(warnings) = 1
       /\ warnings[1].error =
            (IF Parsed.ok THEN "NotAnObject" ELSE "ParseError")
       /\ result = JsonStringify(obj, indentSpaceFallback)
       /\ log = <<>>

\* C3 witness: a call on a malformed original has fallen back with an
\* indent other than the default and a non-empty target
C3_Witness ==
  /\ FellBack
  /\ ~Parsed.ok
  /\ indentSpaceFallback = "    "
  /\ Len(Entries(obj)) > 0
  /\ Len(warnings) = 1

\* ---- notions for C4
\* every array that is not empty breaks the line after its opening bracket
ArraysMultiline(text) ==
  \A i \in 1..Len(text) :
    (text[i] = P("[") /\ At(text, i + 1) # P("]")) => At(text, i + 1) = NL

\* the keys printed in a text, in the order they are printed
PrintedKeys(text) ==
  LET at == SelectSeq([i \in 1..Len(text) |-> i],
                      LAMBDA i : text[i].k = "str" /\ At(text, i + 1) = P(":"))
  IN [j \in 1..Len(at) |-> text[at[j]].s]

RECURSIVE KeysDeep(_)
\* the keys of a value in iteration order, nested keys after their parent
KeysDeep(v) ==
  LET RECURSIVE Cat(_)
      Cat(i) ==
        IF i > Len(v.v) THEN <<>>
        ELSE (IF v.t = "obj" THEN <<v.v[i].k>> \o KeysDeep(v.v[i].v)
              ELSE KeysDeep(v.v[i])) \o Cat(i + 1)
  IN IF IsScalarT(v.t) THEN <<>> ELSE Cat(1)

\* what C4 says of every call without an original, the layout of arrays apart
PlainRendering ==
  /\ pc = "done"
  /\ result = JsonStringify(obj, indentSpaceFallback)
  /\ PrintedKeys(result) = KeysDeep(obj)
  /\ \A i \in 1..Len(result) :
       result[i].k = "ind" => result[i].s = indentSpaceFallback
  /\ result[Len(result)] # NL
  /\ warnings = <<>>
  /\ rootObj = EmptyObject /\ existingProps = <<>> /\ log = <<>>

\* C4 as stated: without an original the result is the JSON.stringify
\* rendering with the fallback indent, keys in iteration order, every
\* non-empty array over several lines, no trailing newline, nothing parsed
\* and no warning.  (For the targets that have a plain rendering.)
C4_AbsentOriginalFallback ==
  (pc # "start" /\ originalContent.null /\ ~Circular(obj))
    => PlainRendering /\ ArraysMultiline(result)

\* C4 amended: as C4, but non-empty arrays are over several lines only when
\* the fallback indent is not the empty string; with the empty string the
\* rendering has no line break at all.
C4_AbsentOriginalFallbackAmended ==
  (pc # "start" /\ originalContent.null /\ ~Circular(obj))
    => /\ PlainRendering
       /\ indentSpaceFallback # "" => ArraysMultiline(result)
       /\ indentSpaceFallback = "" => \A i \in 1..Len(result) : result[i] # NL

\* C4 witness: a call without an original has printed a non-empty array
\* with a four-space indent
C4_Witness ==
  /\ Returned /\ originalContent.null
  /\ indentSpaceFallback = "    "
  /\ \E i \in 1..Len(obj.v) : IsNonEmptyArray(obj.v[i].v)

\* C5: comment preservation on value change.  When the target is the parse
\* of the original with exactly one scalar changed, at any depth, every
\* comment of the original is in the returned text.
C5_CommentsSurviveValueChange ==
  (Reconciled /\ ScalarsChanged(ValueOf(Source), obj) = 1)
    => Comments(originalContent.text) \subseteq Comments(result)

\* ---- notions for C6, C7, C8
Removed == Range(SourceKeys) \ Range(TargetKeys)
Added == Range(TargetKeys) \ Range(SourceKeys)
OldKey == CHOOSE k \in Removed : TRUE
NewKey == CHOOSE k \in Added : TRUE
Commas(node) == Cardinality({i \in 1..Len(node.props) : node.props[i].comma})
TargetValue(key) == Entries(obj)[IndexOf(TargetKeys, key)].v

\* C6: rename preservation.  When exactly one source key is absent from the
\* target and exactly one new key stands at the same position in the target,
\* the property is substituted in place by one replaceWith, nothing is
\* inserted or removed, and the trailing trivia of the old property is that
\* of the new one.
C6_RenamePreservation ==
  (/\ Reconciled
   /\ Cardinality(Removed) = 1 /\ Cardinality(Added) = 1
   /\ IndexOf(SourceKeys, OldKey) = IndexOf(TargetKeys, NewKey))
    => /\ Cardinality(RootOps({"replaceWith"})) = 1
       /\ RootOps({"insert", "remove"}) = {}
       /\ HasKey(rootObj, NewKey)
       /\ PropOf(rootObj, NewKey).trail = PropOf(Source, OldKey).trail

\* C7: removal safety.  When the target omits one source key and has no new
\* key, exactly that property and one adjoining comma are gone; every other
\* property keeps its place, its value and its leading and trailing trivia.
C7_RemovalSafety ==
  (/\ Reconciled
   /\ Cardinality(Removed) = 1 /\ Added = {}
   /\ \A k \in Range(TargetKeys) :
        TargetValue(k) = ValueOf(PropOf(Source, k).node))
    => LET kept == SelectSeq(Source.props, LAMBDA p : p.key # OldKey)
       IN /\ Len(rootObj.props) = Len(kept)
          /\ \A i \in 1..Len(kept) :
               /\ rootObj.props[i].key = kept[i].key
               /\ rootObj.props[i].lead = kept[i].lead
               /\ rootObj.props[i].trail = kept[i].trail
               /\ ValueOf(rootObj.props[i].node) = ValueOf(kept[i].node)
          /\ rootObj.tail = Source.tail
          /\ Commas(rootObj) =
               Commas(Source) - (IF Commas(Source) > 0 THEN 1 ELSE 0)

\* ---- notions for C8
LastKey == TargetKeys[Len(TargetKeys)]
EndsWith(text, end) ==
  /\ Len(end) <= Len(text)
  /\ SubSeq(text, Len(text) - Len(end) + 1, Len(text)) = end

\* the last target key is the last property: it follows the comma of the
\* property before it, and only the trivia before the closing brace follow it
PlacedLast ==
  LET n == Len(rootObj.props)
      last == rootObj.props[n]
      end == <<Tok("str", LastKey), P(":")>> \o RootToString(last.node)
               \o (IF last.comma THEN <<P(",")>> ELSE <<>>)
               \o Triv("trail", last.trail) \o <<NL>>
               \o Triv("lead", Source.tail) \o <<P("}")>>
      before == SubSeq(result, 1, Len(result) - Len(end))
  IN /\ n > 0
     /\ last.key = LastKey
     /\ ValueOf(last.node) = TargetValue(LastKey)
     /\ EndsWith(result, end)
     /\ n > 1 => \E i \in 1..Len(before) :
                   /\ before[i] = P(",")
                   /\ \A j \in (i + 1)..Len(before) :
                        before[j].k \in {"trail", "nl", "lead"}

\* C8 as stated: a new key that is the last key of the target is the last
\* property of the object in the output, after the comma of the property
\* before it and before the trivia that precede the closing brace.  (Stated
\* for the sources none of whose dropped keys is an inherited member name,
\* so that a violation owes nothing to the removal candidacy of C17.)
C8_AdditionPlacement ==
  (/\ Reconciled /\ Len(TargetKeys) > 0 /\ LastKey \notin Range(SourceKeys)
   /\ Removed \cap InheritedNames = {})
    => PlacedLast

\* C8 amended: when the target has the keys of the source in the order of
\* the source, followed by one new key, that key is the last property of
\* the object in the output, after the comma of the property before it and
\* before the trivia that precede the closing brace.
C8_AppendPlacement ==
  (/\ Reconciled
   /\ Len(TargetKeys) = Len(SourceKeys) + 1
   /\ SubSeq(TargetKeys, 1, Len(SourceKeys)) = SourceKeys)
    => PlacedLast

\* C8 witness: a key has been appended to an object of two properties
C8_Witness ==
  /\ Reconciled
  /\ Len(SourceKeys) = 2
  /\ Len(TargetKeys) = 3
  /\ SubSeq(TargetKeys, 1, 2) = SourceKeys
  /\ RootOps({"insert"}) # {}

\* C9: scalar-to-array promotion.  An existing property whose value is not
\* an array and whose target value is an array gets the array as its value
\* and keeps its leading and trailing trivia; ensureMultiline is applied to
\* the new array when, and only when, the target array is not empty.
C9_ScalarToArrayPromotion ==
  Reconciled =>
    \A k \in Range(SourceKeys) \cap Range(TargetKeys) :
      (PropOf(Source, k).node.t # "arr" /\ TargetValue(k).t = "arr")
        => LET was == PropOf(Source, k)
               now == PropOf(rootObj, k)
               multi == Len(TargetValue(k).v) > 0
               Called(op) == \E i \in 1..Len(log) :
                               log[i] = Log(op, "prop", k, 0, 0)
           IN /\ now.node.t = "arr"
              /\ ValueOf(now.node) = TargetValue(k)
              /\ now.lead = was.lead /\ now.trail = was.trail
              /\ Called("setValue")
              /\ Called("ensureMultiline") <=> multi
              /\ now.node.ml <=> multi

\* C9 witness: a string has been replaced by an array of two elements
C9_Witness ==
  /\ Reconciled
  /\ HasKey(Source, "a") /\ "a" \in Range(TargetKeys)
  /\ PropOf(Source, "a").node.t = "str"
  /\ TargetValue("a").t = "arr" /\ Len(TargetValue("a").v) = 2

\* C10: warning discipline.  A call warns at most once, and only when it
\* falls back because the original did not parse to an object; a call
\* without an original, or whose original parsed to an object, never warns.
C10_WarningDiscipline ==
  /\ Len(warnings) <= 1
  /\ warnings # <<>> => (~originalContent.null /\ ParseThrows /\ pc # "start")

\* ---- notions for C11
\* the target has a cycle or a number that is not finite
Unrepresentable(v) == Circular(v) \/ NonFinite(v)

\* C11: unrepresentable target.  When the target has a cycle or a number
\* that is not finite, the call never returns a text: not without an
\* original, not after a parse failure, not on the comment-preserving path.
C11_UnrepresentableTarget ==
  Unrepresentable(obj) => (pc # "done" /\ result = <<>>)

ScalarProps == {i \in 1..Len(Source.props) : IsScalarT(Source.props[i].node.t)}

PropById(id) == rootObj.props[PropertyIndex(rootObj.props, id) + 1]

\* the source properties whose key the target does not have among its own
\* keys, that no earlier rename has consumed, and that sit at the cursor
RenameCandidates ==
  {e \in 1..Len(existingProps) :
     /\ existingProps[e].key \notin Range(TargetKeys)
     /\ PropById(existingProps[e].id).key = existingProps[e].key
     /\ PropertyIndex(rootObj.props, existingProps[e].id) = insertIndex}

\* the step has substituted the next key in place, at the cursor
RenamedInPlace ==
  /\ Len(rootObj'.props) = Len(rootObj.props)
  /\ rootObj'.props[insertIndex + 1].key = NextKey
  /\ rootObj'.props[insertIndex + 1].id = rootObj.props[insertIndex + 1].id
  /\ log'[Len(log) + 1].op = "replaceWith"

\* the step has inserted the next key as a new property, at the cursor
InsertedAtCursor ==
  /\ Len(rootObj'.props) = Len(rootObj.props) + 1
  /\ rootObj'.props[insertIndex + 1].key = NextKey
  /\ log'[Len(log) + 1].op = "insert"

\* a step of the loop of updateObject on a key the source does not have
NewKeyStep ==
  InLoop /\ pc' = "update" /\ NextKey \notin Range(SourceKeys)

\* C13: rename by positional coincidence only.  A target key absent from the
\* source is substituted in place if and only if a source property whose key
\* the target lacks, not consumed by an earlier rename, sits at the cursor,
\* whatever the keys and the values are; otherwise it is inserted.
C13_RenameByPosition ==
  [][NewKeyStep => IF RenameCandidates # {} THEN RenamedInPlace
                   ELSE InsertedAtCursor]_vars

\* C17: removal candidacy.  Every source key that is not an own key of the
\* target is a removal candidate when the loop starts, and the property
\* parsed with it is removed or renamed when updateObject ends, whatever the
\* key is, the names of inherited members included.
C17_RemovalCandidacy ==
  /\ (pc = "update" /\ entry = 0) => propsToRemove = Removed
  /\ Reconciled => \A k \in Removed : ~HasKey(rootObj, k)

\* ---- notions for C14
\* a step of the loop of updateObject on the root object that did not throw
KeyStep == InLoop /\ pc' = "update"

\* after the step the cursor is just behind the property of the key processed
CursorBehindKey ==
  /\ insertIndex' \in 1..Len(rootObj'.props)
  /\ rootObj'.props[insertIndex'].key = NextKey

\* the j-th target key directly follows the key before it in the target, or
\* is the first property when it is the first target key
FollowsPredecessor(j) ==
  IF j = 1 THEN rootObj.props[1].key = TargetKeys[1]
  ELSE \E i \in 1..(Len(rootObj.props) - 1) :
         /\ rootObj.props[i].key = TargetKeys[j - 1]
         /\ rootObj.props[i + 1].key = TargetKeys[j]

\* C14: cursor invariant and placement of new keys.  Right after a target
\* key is processed the cursor is the index of its property plus one; and in
\* the end every target key the source did not have directly follows the
\* property of the key before it in the target, or is the first property
\* when it is the first target key.
C14_CursorInvariant ==
  /\ [][KeyStep => CursorBehindKey]_vars
  /\ [](Reconciled =>
          \A j \in 1..Len(TargetKeys) :
            TargetKeys[j] \notin Range(SourceKeys) => FollowsPredecessor(j))

\* C14 witness: one new key has been renamed in and another inserted behind
\* it, in a target of three keys
C14_Witness ==
  /\ Reconciled
  /\ Len(TargetKeys) = 3
  /\ RootOps({"replaceWith"}) # {}
  /\ RootOps({"insert"}) # {}

\* ---- notions for C15
Min(a, b) == IF a < b THEN a ELSE b

\* the primitives invoked on the elements of the array of root property k
ElemOps(k) ==
  SelectSeq(log, LAMBDA l : l.depth = 0 /\ l.on = "elem" /\ l.key = k)

\* the invocations C15 describes for an array of n elements and a target of
\* m: the removals from index n - 1 down to m, then for each index below m
\* a replacement when it is below n and an append otherwise
ExpectedElemOps(k, n, m) ==
  [j \in 1..(IF n > m THEN n - m ELSE 0) |->
     Log("remove", "elem", k, n - j, 0)]
    \o [j \in 1..m |->
          Log(IF j - 1 < n THEN "replaceWith" ELSE "append", "elem", k,
              j - 1, 0)]

\* the root keys that hold an array in the source and in the target
ArrayKeys ==
  {k \in Range(SourceKeys) \cap Range(TargetKeys) :
     PropOf(Source, k).node.t = "arr" /\ TargetValue(k).t = "arr"}

\* C15: array reconcile.  For an array of n elements and a target of m, the
\* elements n - 1 down to m are removed first, in descending order; then
\* each element below min(n, m) is replaced in place and keeps its leading
\* and trailing trivia, and each target element from n on is appended in
\* increasing order; the array ends with the m elements of the target, in
\* order.
C15_ArrayReconcile ==
  Reconciled =>
    \A k \in ArrayKeys :
      LET was == PropOf(Source, k).node.elems
          now == PropOf(rootObj, k).node.elems
          n == Len(was)
          m == Len(TargetValue(k).v)
      IN /\ ElemOps(k) = ExpectedElemOps(k, n, m)
         /\ Len(now) = m
         /\ ValueOf(PropOf(rootObj, k).node) = TargetValue(k)
         /\ \A i \in 1..Min(n, m) :
              now[i].lead = was[i].lead /\ now[i].trail = was[i].trail

\* C15 witness: an array of two elements has been cut to one: an element
\* was removed and the other replaced
C15_Witness ==
  /\ Reconciled
  /\ \E k \in ArrayKeys :
       /\ Len(PropOf(Source, k).node.elems) = 2
       /\ Len(TargetValue(k).v) = 1

\* ---- notions for C16
\* the source property e is still in the tree
StillThere(e) ==
  \E i \in 1..Len(rootObj.props) : rootObj.props[i].id = existingProps[e].id

\* the source property e is in the tree under another key than its own
RenamedAway(e) ==
  StillThere(e) /\ PropById(existingProps[e].id).key # existingProps[e].key

\* how often remove was invoked on the root property parsed with key k
TimesRemoved(k) == Cardinality({i \in RootOps({"remove"}) : log[i].key = k})

\* C16: deferred, exactly-once removal.  No property of the root object is
\* removed before every target key has been processed; in the end every
\* source property whose key the target lacks has been renamed once or
\* removed once, never both; and no property whose key is in the target is
\* ever removed.
C16_DeferredRemoval ==
  /\ RootOps({"remove"}) # {} => entry = Len(Entries(obj))
  /\ \A i \in RootOps({"remove"}) : log[i].key \notin Range(TargetKeys)
  /\ Reconciled =>
       /\ \A e \in 1..Len(existingProps) :
            existingProps[e].key \notin Range(TargetKeys)
              => IF StillThere(e)
                 THEN RenamedAway(e) /\ TimesRemoved(existingProps[e].key) = 0
                 ELSE TimesRemoved(existingProps[e].key) = 1
       /\ Cardinality(RootOps({"replaceWith"}))
            = Cardinality({e \in 1..Len(existingProps) : RenamedAway(e)})
       /\ \A k \in Range(TargetKeys) : HasKey(rootObj, k)

\* ---- notions for C18
RECURSIVE UniqueKeys(_)
\* no object of the tree has two properties with the same key
UniqueKeys(n) ==
  CASE n.t = "obj" ->
         /\ \A i, j \in 1..Len(n.props) :
              n.props[i].key = n.props[j].key => i = j
         /\ \A i \in 1..Len(n.props) : UniqueKeys(n.props[i].node)
    [] n.t = "arr" -> \A i \in 1..Len(n.elems) : UniqueKeys(n.elems[i].node)
    [] OTHER -> TRUE

\* C18: key uniqueness at every step.  Between any two iterations of the
\* loops of updateObject on the root object, and when it has ended, no object
\* of the tree has two properties with the same key.
C18_KeyUniqueness == UniqueKeys(rootObj)

\* C18 witness: updateObject is under way on an object of three properties,
\* after an insertion and before the removal of a property
C18_Witness ==
  /\ pc = "update"
  /\ visited = 0
  /\ Len(rootObj.props) = 3
  /\ propsToRemove # {}
  /\ RootOps({"insert"}) # {}

\* ---- notions for C19
\* the root keys ensureMultiline was invoked on
Formatted == {log[i].key : i \in RootOps({"ensureMultiline"})}

\* C19: existing array layout is left alone.  ensureMultiline is invoked
\* only on a non-empty array this call has created, as the value of an
\* inserted or renamed property or in place of a value that was not an
\* array; an array of the source keeps its layout, single-line or
\* multi-line, whatever happens to its elements.
C19_ExistingArrayLayout ==
  Reconciled =>
    /\ \A k \in Formatted :
         /\ IsNonEmptyArray(TargetValue(k))
         /\ k \in Range(SourceKeys) => PropOf(Source, k).node.t # "arr"
    /\ \A k \in ArrayKeys :
         PropOf(rootObj, k).node.ml = PropOf(Source, k).node.ml

\* C19 witness: a single-line array of one element has grown to two
\* elements
C19_Witness ==
  /\ Reconciled
  /\ \E k \in ArrayKeys :
       /\ ~PropOf(Source, k).node.ml
       /\ Len(PropOf(Source, k).node.elems) = 1
       /\ Len(TargetValue(k).v) = 2

\* ---- notions for C20
\* the source keys the target has too
Surviving == {k \in Range(SourceKeys) : k \in Range(TargetKeys)}

\* every property with key k1 stands before every property with key k2
Before(k1, k2) ==
  /\ HasKey(rootObj, k1) /\ HasKey(rootObj, k2)
  /\ \A i, j \in 1..Len(rootObj.props) :
       (rootObj.props[i].key = k1 /\ rootObj.props[j].key = k2) => i < j

\* C20: surviving properties are never reordered.  Two source properties
\* whose keys are both in the target stand in the output in the order they
\* have in the source, also when the target iterates them the other way
\* round.
C20_SurvivorsKeepOrder ==
  Reconciled =>
    \A k1, k2 \in Surviving :
      IndexOf(SourceKeys, k1) < IndexOf(SourceKeys, k2) => Before(k1, k2)

\* C20 witness: the target iterates two surviving keys in the opposite order
\* of the source
C20_Witness ==
  /\ Reconciled
  /\ \E k1, k2 \in Surviving :
       /\ IndexOf(SourceKeys, k1) < IndexOf(SourceKeys, k2)
       /\ IndexOf(TargetKeys, k2) < IndexOf(TargetKeys, k1)
====
